---- MODULE Spec2Model ----
(***************************************************************************)
(* Brightness control of the FSC Amilo Pa 2548 ACPI driver                 *)
(* (src/amilo_pa2548.c): the cached level this_laptop->current_blevel, the *)
(* firmware method _BCM, the BRTS register behind I/O ports 0x72/0x73, the *)
(* backlight and sysfs surfaces and the ACPI notify handler.  Every        *)
(* handler is a sequence of steps, one per access to shared state or to    *)
(* the hardware, so that handlers of different execution contexts can      *)
(* interleave between statements.                                          *)
(***************************************************************************)
EXTENDS Integers, Sequences, FiniteSets, TLC

(***************************************************************************)
(* Program constants                                                       *)
(***************************************************************************)
\* model_options[MODEL_AMILO_PA_2548].min_blevel / .max_blevel
min_blevel == 0
max_blevel == 7

ACPI_VIDEO_NOTIFY_INC_BRIGHTNESS == 134
ACPI_VIDEO_NOTIFY_DEC_BRIGHTNESS == 135
\* a notify value that is neither of the two above
OTHER_NOTIFY == ACPI_VIDEO_NOTIFY_DEC_BRIGHTNESS + 1

IO_PORT_ADDRESS_SET == 114
IO_PORT_DATA_RW == 115
BRTS_REGISTER_ADDRESS == 243

\* values of <acpi/acexcep.h>, <linux/errno.h> and <linux/input.h> that the
\* source uses by name
AE_OK == 0
AE_ERROR == 1
EINVAL == 22
KEY_BRIGHTNESSDOWN == 224
KEY_BRIGHTNESSUP == 225

(***************************************************************************)
(* Bounds of the model                                                     *)
(***************************************************************************)
\* how far beyond [min_blevel, max_blevel] the sampled integers reach
Margin == 1

\* the values an int that was never assigned, or a level a caller passes, may
\* take in the model
IntSamples == (min_blevel - Margin) .. (max_blevel + Margin)

\* the bytes the data port may deliver: every level, the first byte above
\* the range and the largest byte
Bytes == (0 .. (max_blevel + 1)) \cup {255}

\* status of acpi_os_write_port / acpi_os_read_port as the driver tests it
\* (status < 0 is a failure)
PortStatus == {-1, AE_OK}

\* status of acpi_evaluate_object
AcpiStatus == {AE_OK, AE_ERROR}

\* the notify values delivered to acpi_driver_notify
Events == {ACPI_VIDEO_NOTIFY_INC_BRIGHTNESS, ACPI_VIDEO_NOTIFY_DEC_BRIGHTNESS,
           OTHER_NOTIFY}

(***************************************************************************)
(* Execution contexts: module initialisation, a process that uses the      *)
(* backlight device or the sysfs attribute, and the ACPI notify work queue *)
(***************************************************************************)
Surfaces == {"user", "acpi"}
Ctx == {"mod"} \cup Surfaces

(***************************************************************************)
(* Text: the buffers of the sysfs attribute are tuples of characters.      *)
(***************************************************************************)
DecChars == <<"0", "1", "2", "3", "4", "5", "6", "7", "8", "9">>
HexChars == DecChars \o <<"a", "b", "c", "d", "e", "f">>

IsSpace(ch) == ch \in {" ", "\n", "\t"}
IsDigit(ch) == \E i \in 1..Len(DecChars) : DecChars[i] = ch
IsXDigit(ch) == \E i \in 1..Len(HexChars) : HexChars[i] = ch
DigitVal(ch) == (CHOOSE i \in 1..Len(HexChars) : HexChars[i] = ch) - 1

RECURSIVE SkipSpaces(_)
SkipSpaces(s) ==
    IF s # <<>> /\ IsSpace(Head(s)) THEN SkipSpaces(Tail(s)) ELSE s

\* simple_guess_base of the kernel's simple_strtoul for base 0
GuessBase(s) ==
    IF s # <<>> /\ Head(s) = "0"
    THEN IF Len(s) >= 3 /\ s[2] = "x" /\ IsXDigit(s[3]) THEN 16 ELSE 8
    ELSE 10

RECURSIVE StrToUL(_, _, _)
StrToUL(s, base, acc) ==
    IF s # <<>> /\ IsXDigit(Head(s)) /\ DigitVal(Head(s)) < base
    THEN StrToUL(Tail(s), base, acc * base + DigitVal(Head(s)))
    ELSE acc

SimpleStrToL(s) ==
    LET neg == s # <<>> /\ Head(s) = "-"
        t == IF neg THEN Tail(s) ELSE s
        base == GuessBase(t)
        u == IF base = 16 THEN SubSeq(t, 3, Len(t)) ELSE t
        v == StrToUL(u, base, 0)
    IN IF neg THEN -v ELSE v

\* sscanf(buf, "%i", &level): the set of outcomes [status, assigned, value].
\* With no character to convert the C library returns EOF and the kernel's
\* vsscanf returns 0; with a first character that is no digit both return 0.
\* In neither case is level assigned.
Sscanf(buf) ==
    LET EOF == 0 - 1
        s == SkipSpaces(buf)
        d == IF s # <<>> /\ Head(s) = "-" THEN Tail(s) ELSE s
    IN IF s = <<>>
       THEN {[status |-> st, assigned |-> FALSE, value |-> 0] : st \in {EOF, 0}}
       ELSE IF d = <<>> \/ ~IsDigit(Head(d))
       THEN {[status |-> 0, assigned |-> FALSE, value |-> 0]}
       ELSE {[status |-> 1, assigned |-> TRUE, value |-> SimpleStrToL(s)]}

RECURSIVE UToA(_)
UToA(n) == IF n < 10 THEN <<DecChars[n + 1]>>
           ELSE UToA(n \div 10) \o <<DecChars[(n % 10) + 1]>>

\* sprintf(buf, "%i\n", level)
Sprintf(level) ==
    (IF level < 0 THEN <<"-">> \o UToA(-level) ELSE UToA(level)) \o <<"\n">>

\* the buffers written to lcd_level: a number and a newline as echo writes
\* them, an empty buffer, text that is no number, a decimal, an octal and a
\* hexadecimal number
Texts ==
    {Sprintf(n) : n \in IntSamples}
    \cup {<<>>, <<"x", "\n">>, <<"1", "0">>, <<"0", "1", "0">>, <<"0", "x", "5">>}

(***************************************************************************)
(* State                                                                   *)
(***************************************************************************)
VARIABLES
    current_blevel, \* this_laptop->current_blevel
    hw,             \* the BRTS register of the panel: the level the hardware has
    pc,             \* pc[c]: the statement context c executes next
    fr,             \* fr[c]: the locals of the handler context c runs
    emitted,        \* the key events the running notify handler has reported
    serial,         \* TRUE: a handler is started only when no other one runs
    sound,          \* TRUE: the ports and _BCM never fail and the register
                    \* holds the level _BCM was given last
    once,           \* TRUE: each context runs one handler after the load
    started,        \* the contexts that have run their handler, when once
    stage,          \* history: how far the handlers followed the scenario
    clean,          \* history: the hardware answered well since stage 1
    entry,          \* history: current_blevel when the running handler started
    pre,            \* history: current_blevel when lcd_get/set_blevel was entered
    io,             \* history: the port operations of the running lcd_get_blevel
    fw,             \* history: the _BCM calls of the running handler
    scan,           \* history: what sscanf returned to the running pf_store
    prev,           \* history: the handler that returned last
    oob             \* history: the panel changed out of band since that return

vars == <<current_blevel, hw, pc, fr, emitted, serial, sound, once,
          started, stage, clean, entry, pre, io, fw, scan, prev, oob>>

\* what is chosen with the initial state and never changes
mode == <<serial, sound, once>>

\* what only the start and the return of a handler record
watch == <<started, stage, clean>>

\* the history is kept when handlers run one after another
hist == <<entry, pre, io, fw, scan, prev, oob>>

IdleFrame ==
    [op |-> "none", arg |-> 0, level |-> 0, data |-> -1, ret |-> 0, keycode |-> 0]

NoPrev == [op |-> "none", arg |-> 0, level |-> 0, ret |-> 0, out |-> 0]

\* struct amilo_pa2548_t after kzalloc, before this_laptop_init
InitCommon ==
    /\ current_blevel = 0
    /\ hw \in Bytes
    /\ pc = [c \in Ctx |-> IF c = "mod" THEN "start" ELSE "idle"]
    /\ fr = [c \in Ctx |-> IdleFrame]
    /\ emitted = <<>>
    /\ entry = 0
    /\ pre = 0
    /\ io = <<>>
    /\ fw = <<>>
    /\ scan = 0
    /\ prev = NoPrev
    /\ oob = FALSE
    /\ started = {}
    /\ stage = 0
    /\ clean = TRUE

\* handlers run one after another
Init == InitCommon /\ serial = TRUE /\ sound = FALSE /\ once = FALSE

\* handlers of different contexts interleave
InitConc == InitCommon /\ serial = FALSE /\ sound = FALSE /\ once = FALSE

\* one handler of each context, interleaved, on hardware that works: the
\* register holds a level
InitRace ==
    /\ InitCommon
    /\ hw \in min_blevel .. max_blevel
    /\ serial = FALSE /\ sound = TRUE /\ once = TRUE

Goto(c, label) == pc' = [pc EXCEPT ![c] = label]
Locals(c, f) == fr' = [fr EXCEPT ![c] = f]
Keep(old, new) == IF serial THEN new ELSE old

\* the answers of the hardware among S: only AE_OK when it works
Answers(S) == IF sound THEN {AE_OK} ELSE S

(***************************************************************************)
(* lcd_get_blevel                                                          *)
(***************************************************************************)
\* the check of line 370 without its right border
GetOutOfBordersLeftOnly(data) == min_blevel > data

\* line 370: left_border > data || data > right_border
GetOutOfBorders(data) == min_blevel > data \/ data > max_blevel

\* a failure test that takes the positive codes for the failures
PortFailedPositive(status) == status > 0

\* lines 354 and 363: status < 0
PortFailed(status) == status < 0

\* lcd_get_blevel without the assignment of line 351
GLoadSkipped(c) ==
    /\ pc[c] = "g_load"
    /\ Goto(c, "g_write")
    /\ pre' = Keep(pre, current_blevel)
    /\ io' = Keep(io, <<>>)
    /\ UNCHANGED <<current_blevel, hw, fr, emitted, mode, watch, entry, fw, scan, prev, oob>>

\* line 351: (*level) = this_laptop->current_blevel
GLoad(c) ==
    /\ pc[c] = "g_load"
    /\ Locals(c, [fr[c] EXCEPT !.level = current_blevel])
    /\ Goto(c, "g_write")
    /\ pre' = Keep(pre, current_blevel)
    /\ io' = Keep(io, <<>>)
    /\ UNCHANGED <<current_blevel, hw, emitted, mode, watch, entry, fw, scan, prev, oob>>

\* lcd_get_blevel going on to the read without the test of line 354
GWriteUnchecked(c) ==
    /\ pc[c] = "g_write"
    /\ \E status \in Answers(PortStatus) :
         io' = Keep(io, Append(io, [kind |-> "write", port |-> IO_PORT_ADDRESS_SET,
                                    value |-> BRTS_REGISTER_ADDRESS,
                                    status |-> status]))
    /\ Goto(c, "g_read")
    /\ UNCHANGED <<current_blevel, hw, fr, emitted, mode, watch, entry, pre, fw, scan, prev, oob>>

\* lines 353-360: acpi_os_write_port(IO_PORT_ADDRESS_SET, BRTS_REGISTER_ADDRESS, 1)
GWrite(c) ==
    /\ pc[c] = "g_write"
    /\ \E status \in Answers(PortStatus) :
         /\ io' = Keep(io, Append(io, [kind |-> "write", port |-> IO_PORT_ADDRESS_SET,
                                       value |-> BRTS_REGISTER_ADDRESS,
                                       status |-> status]))
         /\ IF PortFailed(status)
            THEN /\ Locals(c, [fr[c] EXCEPT !.ret = AE_ERROR])
                 /\ Goto(c, "g_ret")
            ELSE /\ UNCHANGED fr
                 /\ Goto(c, "g_read")
    /\ UNCHANGED <<current_blevel, hw, emitted, mode, watch, entry, pre, fw, scan, prev, oob>>

\* lines 362-368: acpi_os_read_port(IO_PORT_DATA_RW, &data, 1).  The register
\* holds what it held, or the level the panel was given meanwhile without the
\* driver (the BIOS handles a key itself) or a byte that is no level: only
\* this read observes the register, so such a change is taken here.
GRead(c) ==
    /\ pc[c] = "g_read"
    /\ \E status \in Answers(PortStatus) :
         IF PortFailed(status)
         THEN /\ io' = Keep(io, Append(io, [kind |-> "read", port |-> IO_PORT_DATA_RW,
                                            value |-> -1, status |-> status]))
              /\ Locals(c, [fr[c] EXCEPT !.ret = AE_ERROR])
              /\ Goto(c, "g_ret")
              /\ UNCHANGED <<hw, oob>>
         ELSE \E b \in (IF sound THEN {hw} ELSE Bytes) :
                /\ hw' = b
                /\ oob' = (serial /\ (oob \/ b # hw))
                /\ io' = Keep(io, Append(io, [kind |-> "read", port |-> IO_PORT_DATA_RW,
                                              value |-> b, status |-> status]))
                /\ Locals(c, [fr[c] EXCEPT !.data = b])
                /\ Goto(c, "g_check")
    /\ UNCHANGED <<current_blevel, emitted, mode, watch, entry, pre, fw, scan, prev>>

\* lcd_get_blevel giving the byte to its caller before it checks it
GCheckLevelFirst(c) ==
    /\ pc[c] = "g_check"
    /\ IF GetOutOfBorders(fr[c].data)
       THEN /\ Locals(c, [fr[c] EXCEPT !.level = fr[c].data, !.ret = AE_ERROR,
                                       !.data = -1])
            /\ UNCHANGED current_blevel
       ELSE /\ Locals(c, [fr[c] EXCEPT !.level = fr[c].data, !.ret = AE_OK,
                                       !.data = -1])
            /\ current_blevel' = fr[c].data
    /\ Goto(c, "g_ret")
    /\ UNCHANGED <<hw, emitted, mode, watch, hist>>

\* lcd_get_blevel giving the byte to its caller without caching it
GCheckLocalOnly(c) ==
    /\ pc[c] = "g_check"
    /\ IF GetOutOfBorders(fr[c].data)
       THEN Locals(c, [fr[c] EXCEPT !.ret = AE_ERROR, !.data = -1])
       ELSE Locals(c, [fr[c] EXCEPT !.level = fr[c].data, !.ret = AE_OK,
                                    !.data = -1])
    /\ Goto(c, "g_ret")
    /\ UNCHANGED <<current_blevel, hw, emitted, mode, watch, hist>>

\* lines 370-380: the range check, then
\* (*level) = this_laptop->current_blevel = data; data ends with the call
GCheck(c) ==
    /\ pc[c] = "g_check"
    /\ IF GetOutOfBorders(fr[c].data)
       THEN /\ Locals(c, [fr[c] EXCEPT !.ret = AE_ERROR, !.data = -1])
            /\ UNCHANGED current_blevel
       ELSE /\ Locals(c, [fr[c] EXCEPT !.level = fr[c].data, !.ret = AE_OK,
                                       !.data = -1])
            /\ current_blevel' = fr[c].data
    /\ Goto(c, "g_ret")
    /\ UNCHANGED <<hw, emitted, mode, watch, hist>>

(***************************************************************************)
(* lcd_set_blevel                                                          *)
(***************************************************************************)
\* the check of lines 319-322 without its left border
SetOutOfBordersRightOnly(level) == level > max_blevel

\* the borders of lines 319-320 compared one step too far out
SetOutOfBordersLoose(level) ==
    level < min_blevel - 1 \/ level > max_blevel + 1

\* lines 319-322: out_of_left_border || out_of_right_border
SetOutOfBorders(level) == level < min_blevel \/ level > max_blevel

\* a failure test on the sign of the status, as line 462 makes it
AcpiFailureBySign(status) == IF status < 0 THEN 1 ELSE 0

\* ACPI_FAILURE(status)
AcpiFailure(status) == IF status # AE_OK THEN 1 ELSE 0

\* lcd_set_blevel without the assignment of line 325
SCheckNoStore(c) ==
    /\ pc[c] = "s_check"
    /\ IF SetOutOfBorders(fr[c].level)
       THEN /\ Locals(c, [fr[c] EXCEPT !.ret = -EINVAL])
            /\ Goto(c, "s_ret")
       ELSE /\ Goto(c, "s_wait")
            /\ UNCHANGED fr
    /\ pre' = Keep(pre, current_blevel)
    /\ UNCHANGED <<current_blevel, hw, emitted, mode, watch, entry, io, fw, scan, prev, oob>>

\* lcd_set_blevel storing the level before it checks it
SCheckStoreFirst(c) ==
    /\ pc[c] = "s_check"
    /\ current_blevel' = fr[c].level
    /\ IF SetOutOfBorders(fr[c].level)
       THEN /\ Locals(c, [fr[c] EXCEPT !.ret = -EINVAL])
            /\ Goto(c, "s_ret")
       ELSE /\ Goto(c, "s_wait")
            /\ UNCHANGED fr
    /\ pre' = Keep(pre, current_blevel)
    /\ UNCHANGED <<hw, emitted, mode, watch, entry, io, fw, scan, prev, oob>>

\* lines 319-329: the range check, then this_laptop->current_blevel = level
\* and acpi_evaluate_object(NULL, BCM, &args, NULL) is entered
SCheck(c) ==
    /\ pc[c] = "s_check"
    /\ IF SetOutOfBorders(fr[c].level)
       THEN /\ Locals(c, [fr[c] EXCEPT !.ret = -EINVAL])
            /\ Goto(c, "s_ret")
            /\ UNCHANGED current_blevel
       ELSE /\ current_blevel' = fr[c].level
            /\ Goto(c, "s_wait")
            /\ UNCHANGED fr
    /\ pre' = Keep(pre, current_blevel)
    /\ UNCHANGED <<hw, emitted, mode, watch, entry, io, fw, scan, prev, oob>>

\* lcd_set_blevel taking the level back when _BCM failed
SWaitRollback(c) ==
    /\ pc[c] = "s_wait"
    /\ \E status \in Answers(AcpiStatus) :
         /\ Locals(c, [fr[c] EXCEPT !.ret = AcpiFailure(status)])
         /\ hw' = IF status = AE_OK THEN fr[c].level ELSE hw
         /\ current_blevel' = IF status = AE_OK THEN current_blevel ELSE pre
         /\ fw' = Keep(fw, Append(fw, [level |-> fr[c].level, status |-> status]))
    /\ Goto(c, "s_ret")
    /\ UNCHANGED <<emitted, mode, watch, entry, pre, io, scan, prev, oob>>

\* lines 327-331: _BCM ends, having set the panel to the level unless it
\* failed; return ACPI_FAILURE(status)
SWait(c) ==
    /\ pc[c] = "s_wait"
    /\ \E status \in Answers(AcpiStatus) :
         /\ Locals(c, [fr[c] EXCEPT !.ret = AcpiFailure(status)])
         /\ hw' = IF status = AE_OK THEN fr[c].level ELSE hw
         /\ fw' = Keep(fw, Append(fw, [level |-> fr[c].level, status |-> status]))
    /\ Goto(c, "s_ret")
    /\ UNCHANGED <<current_blevel, emitted, mode, watch, entry, pre, io, scan, prev, oob>>

(***************************************************************************)
(* Starting and ending a handler                                           *)
(***************************************************************************)
\* the lcd_get_blevel that has just returned delivered no level: a port
\* operation failed or the byte read is outside the range
NoLevel ==
    \/ io = <<>>
    \/ io[Len(io)].status < 0
    \/ io[Len(io)].kind = "read" /\ ~(io[Len(io)].value \in min_blevel .. max_blevel)

\* the hardware answered well to the running handler: no _BCM call failed
\* and the data port delivered the level the register held
WellAnswered == ~oob /\ \A i \in 1 .. Len(fw) : fw[i].status = AE_OK

\* the stage of the scenario after handler op with the locals f returns.
\* Stage 1 is the load with both lcd_get_blevel calls delivering no level;
\* the scenario goes on with a set of 10, a set of 2 for which _BCM
\* succeeds, a decrement event and an increment event.  Anything else ends
\* the scenario.
ScenarioStage(op, f) ==
    LET follows ==
          \/ stage = 1 /\ op \in {"bl_set", "pf_store"} /\ f.level = 10
          \/ stage = 2 /\ op \in {"bl_set", "pf_store"} /\ f.level = 2
                       /\ fw # <<>> /\ fw[Len(fw)].status = AE_OK
          \/ stage = 3 /\ op = "notify"
                       /\ f.arg = ACPI_VIDEO_NOTIFY_DEC_BRIGHTNESS
          \/ stage = 4 /\ op = "notify"
                       /\ f.arg = ACPI_VIDEO_NOTIFY_INC_BRIGHTNESS
    IN  IF serial /\ follows THEN stage + 1 ELSE 0

\* the driver is loaded and, when handlers run one after another, no
\* handler is running; a context that runs one handler has not run it
MayStart(c) ==
    /\ pc["mod"] = "loaded"
    /\ pc[c] = "idle"
    /\ serial => \A d \in Surfaces : pc[d] = "idle"
    /\ once => c \notin started

Start(c, f, label) ==
    /\ Locals(c, f)
    /\ Goto(c, label)
    /\ entry' = Keep(entry, current_blevel)
    /\ pre' = Keep(pre, current_blevel)
    /\ started' = IF once THEN started \cup {c} ELSE started
    /\ UNCHANGED <<current_blevel, hw, emitted, mode, stage, clean, io, fw, prev, oob>>

\* handler op of context c returns out to the kernel
Return(c, op, out) ==
    /\ Goto(c, "idle")
    /\ Locals(c, IdleFrame)
    /\ prev' = Keep(prev, [op |-> op, arg |-> fr[c].arg,
                           level |-> fr[c].level, ret |-> fr[c].ret, out |-> out])
    /\ entry' = Keep(entry, 0)
    /\ pre' = Keep(pre, 0)
    /\ io' = Keep(io, <<>>)
    /\ fw' = Keep(fw, <<>>)
    /\ scan' = Keep(scan, 0)
    /\ oob' = FALSE
    /\ emitted' = <<>>
    /\ stage' = ScenarioStage(op, fr[c])
    /\ clean' = (ScenarioStage(op, fr[c]) = 0 \/ (clean /\ WellAnswered))
    /\ UNCHANGED <<current_blevel, hw, mode, started>>

(***************************************************************************)
(* this_laptop_init and amilo_pa2548_init                                  *)
(***************************************************************************)
\* this_laptop_init without the assignment of line 625
InitStartNoDefault ==
    /\ pc["mod"] = "start"
    /\ Locals("mod", [IdleFrame EXCEPT !.op = "init"])
    /\ Goto("mod", "g_load")
    /\ UNCHANGED <<current_blevel, hw, emitted, mode, watch, hist>>

\* line 625: this->current_blevel = this->options.max_blevel, then the call
\* of lcd_get_blevel of line 626
InitStart ==
    /\ pc["mod"] = "start"
    /\ current_blevel' = max_blevel
    /\ Locals("mod", [IdleFrame EXCEPT !.op = "init"])
    /\ Goto("mod", "g_load")
    /\ UNCHANGED <<hw, emitted, mode, watch, hist>>

\* lines 626-627: if (lcd_get_blevel(&level)) this->current_blevel = level
InitFallback ==
    /\ pc["mod"] = "g_ret"
    /\ fr["mod"].op = "init"
    /\ current_blevel' = IF fr["mod"].ret # 0 THEN fr["mod"].level
                         ELSE current_blevel
    /\ Goto("mod", "init_ret")
    /\ stage' = IF serial /\ NoLevel THEN 1 ELSE 0
    /\ UNCHANGED <<hw, fr, emitted, mode, started, clean, hist>>

\* line 692: lcd_get_blevel(&level) of amilo_pa2548_init
ProbeStart ==
    /\ pc["mod"] = "init_ret"
    /\ Locals("mod", [IdleFrame EXCEPT !.op = "probe"])
    /\ Goto("mod", "g_load")
    /\ UNCHANGED <<current_blevel, hw, emitted, mode, watch, hist>>

\* line 693: props.brightness = level; the devices get registered
ProbeReturn ==
    /\ pc["mod"] = "g_ret"
    /\ fr["mod"].op = "probe"
    /\ Goto("mod", "loaded")
    /\ Locals("mod", IdleFrame)
    /\ prev' = Keep(prev, [op |-> "probe", arg |-> 0, level |-> fr["mod"].level,
                           ret |-> fr["mod"].ret, out |-> fr["mod"].level])
    /\ pre' = Keep(pre, 0)
    /\ io' = Keep(io, <<>>)
    /\ oob' = FALSE
    /\ stage' = IF stage = 1 /\ NoLevel THEN 1 ELSE 0
    /\ UNCHANGED <<current_blevel, hw, emitted, mode, started, clean, entry, fw, scan>>

(***************************************************************************)
(* The backlight surface and the sysfs attribute lcd_level                 *)
(***************************************************************************)
\* lines 398 and 435: bl_get_blevel and pf_show_lcd_level both start with
\* int level; lcd_get_blevel(&level), and differ in what they return
ReadStart ==
    /\ MayStart("user")
    /\ Start("user", [IdleFrame EXCEPT !.op = "read"], "g_load")
    /\ UNCHANGED scan

\* line 400: bl_get_blevel ends with return level
BlGetReturn ==
    /\ pc["user"] = "g_ret"
    /\ fr["user"].op = "read"
    /\ Return("user", "bl_get", fr["user"].level)

\* line 437: pf_show_lcd_level ends with return sprintf(buf, "%i\n", level)
PfShowReturn ==
    /\ pc["user"] = "g_ret"
    /\ fr["user"].op = "read"
    /\ Return("user", "pf_show", Len(Sprintf(fr["user"].level)))

\* line 412: bl_set_blevel calls lcd_set_blevel(bd->props.brightness); the
\* backlight core stores a brightness of 0..max_brightness there
BlSetStart ==
    /\ MayStart("user")
    /\ \E b \in 0 .. max_blevel :
         Start("user", [IdleFrame EXCEPT !.op = "bl_set", !.arg = b, !.level = b],
               "s_check")
    /\ UNCHANGED scan

\* line 412: return of lcd_set_blevel's value
BlSetReturn ==
    /\ pc["user"] = "s_ret"
    /\ fr["user"].op = "bl_set"
    /\ Return("user", "bl_set", fr["user"].ret)

\* lines 457-459: the level pf_store_lcd_level passes to lcd_set_blevel.
\* When sscanf assigned nothing and returned no negative status, level is
\* read without ever having been written: any int.
StoreLevels(r) ==
    IF r.assigned THEN {r.value}
    ELSE IF r.status < 0 THEN {current_blevel}
    ELSE IntSamples

\* lines 457-461: status = sscanf(buf, "%i", &level); if (status < 0)
\* level = this_laptop->current_blevel; then the call of lcd_set_blevel
PfStoreStart ==
    /\ MayStart("user")
    /\ \E text \in Texts : \E r \in Sscanf(text) : \E l \in StoreLevels(r) :
         /\ Start("user", [IdleFrame EXCEPT !.op = "pf_store", !.arg = Len(text),
                                            !.level = l],
                  "s_check")
         /\ scan' = Keep(scan, r.status)

\* lines 462-465: if (status < 0) return status; return count
StoreResult(status, count) == IF status < 0 THEN status ELSE count

\* lines 461-465: status = lcd_set_blevel(level) and the return
PfStoreReturn ==
    /\ pc["user"] = "s_ret"
    /\ fr["user"].op = "pf_store"
    /\ Return("user", "pf_store", StoreResult(fr["user"].ret, fr["user"].arg))

(***************************************************************************)
(* acpi_driver_notify                                                      *)
(***************************************************************************)
\* line 577: the handler calls lcd_get_blevel(&level) whatever the event is
NotifyStart ==
    /\ MayStart("acpi")
    /\ Start("acpi", [IdleFrame EXCEPT !.op = "notify"], "g_load")
    /\ UNCHANGED scan

\* the steps of lines 582 and 589 exchanged
TargetSwapped(event, level) ==
    IF event = ACPI_VIDEO_NOTIFY_DEC_BRIGHTNESS THEN level + 1 ELSE level - 1

\* lines 582 and 589: --level, ++level
Target(event, level) ==
    IF event = ACPI_VIDEO_NOTIFY_DEC_BRIGHTNESS THEN level - 1 ELSE level + 1

\* the keys of lines 583 and 590 exchanged
KeyOfSwapped(event) ==
    IF event = ACPI_VIDEO_NOTIFY_DEC_BRIGHTNESS THEN KEY_BRIGHTNESSUP
    ELSE IF event = ACPI_VIDEO_NOTIFY_INC_BRIGHTNESS THEN KEY_BRIGHTNESSDOWN
    ELSE 0

\* lines 583, 590 and 596: the key of the event
KeyOf(event) ==
    IF event = ACPI_VIDEO_NOTIFY_DEC_BRIGHTNESS THEN KEY_BRIGHTNESSDOWN
    ELSE IF event = ACPI_VIDEO_NOTIFY_INC_BRIGHTNESS THEN KEY_BRIGHTNESSUP
    ELSE 0

\* the switch without its default case: any other event is taken for
\* ACPI_VIDEO_NOTIFY_INC_BRIGHTNESS
NotifySwitchNoDefault ==
    /\ pc["acpi"] = "g_ret"
    /\ fr["acpi"].op = "notify"
    /\ \E event \in Events :
         /\ Locals("acpi", [fr["acpi"] EXCEPT
                !.arg = event, !.ret = 0,
                !.level = Target(event, fr["acpi"].level)])
         /\ Goto("acpi", "s_check")
    /\ UNCHANGED <<current_blevel, hw, emitted, mode, watch, hist>>

\* lines 579-599: the switch, the first use of event, which is drawn here:
\* the call of lcd_set_blevel with the level stepped, or keycode = 0 and, by
\* line 601, no key event.  The value lcd_get_blevel returned is not kept.
NotifySwitch ==
    /\ pc["acpi"] = "g_ret"
    /\ fr["acpi"].op = "notify"
    /\ \E event \in Events :
         IF event \in {ACPI_VIDEO_NOTIFY_DEC_BRIGHTNESS,
                       ACPI_VIDEO_NOTIFY_INC_BRIGHTNESS}
         THEN /\ Locals("acpi", [fr["acpi"] EXCEPT
                     !.arg = event, !.ret = 0,
                     !.level = Target(event, fr["acpi"].level)])
              /\ Goto("acpi", "s_check")
         ELSE /\ Locals("acpi", [fr["acpi"] EXCEPT
                     !.arg = event, !.ret = 0, !.keycode = KeyOf(event)])
              /\ Goto("acpi", "n_ret")
    /\ UNCHANGED <<current_blevel, hw, emitted, mode, watch, hist>>

\* the handler reporting the key only when lcd_set_blevel returned 0
NotifyKeycodeOnSuccess ==
    /\ pc["acpi"] = "s_ret"
    /\ fr["acpi"].op = "notify"
    /\ Locals("acpi", [fr["acpi"] EXCEPT !.keycode = KeyOf(fr["acpi"].arg),
                                         !.ret = 0])
    /\ Goto("acpi", IF fr["acpi"].ret = 0 THEN "key_down" ELSE "n_ret")
    /\ UNCHANGED <<current_blevel, hw, emitted, mode, watch, hist>>

\* lines 583-586, 590-593 and 601: lcd_set_blevel has returned, its value is
\* not kept; keycode is set and is not 0
NotifyKeycode ==
    /\ pc["acpi"] = "s_ret"
    /\ fr["acpi"].op = "notify"
    /\ Locals("acpi", [fr["acpi"] EXCEPT !.keycode = KeyOf(fr["acpi"].arg),
                                         !.ret = 0])
    /\ Goto("acpi", IF KeyOf(fr["acpi"].arg) # 0 THEN "key_down" ELSE "n_ret")
    /\ UNCHANGED <<current_blevel, hw, emitted, mode, watch, hist>>

\* lines 603-604: input_report_key(input, keycode, 1); input_sync(input)
KeyDown ==
    /\ pc["acpi"] = "key_down"
    /\ emitted' = Append(emitted, [code |-> fr["acpi"].keycode, value |-> 1])
    /\ Goto("acpi", "key_up")
    /\ UNCHANGED <<current_blevel, hw, fr, mode, watch, hist>>

\* lines 605-606: input_report_key(input, keycode, 0); input_sync(input)
KeyUp ==
    /\ pc["acpi"] = "key_up"
    /\ emitted' = Append(emitted, [code |-> fr["acpi"].keycode, value |-> 0])
    /\ Goto("acpi", "n_ret")
    /\ UNCHANGED <<current_blevel, hw, fr, mode, watch, hist>>

\* line 608: the handler returns nothing
NotifyReturn ==
    /\ pc["acpi"] = "n_ret"
    /\ Return("acpi", "notify", 0)

(***************************************************************************)
(* Specifications                                                          *)
(***************************************************************************)
Next ==
    \/ InitStart \/ InitFallback \/ ProbeStart \/ ProbeReturn
    \/ \E c \in Ctx : GLoad(c) \/ GWrite(c) \/ GRead(c) \/ GCheck(c)
    \/ \E c \in Surfaces : SCheck(c) \/ SWait(c)
    \/ ReadStart \/ BlGetReturn \/ PfShowReturn
    \/ BlSetStart \/ BlSetReturn \/ PfStoreStart \/ PfStoreReturn
    \/ NotifyStart \/ NotifySwitch \/ NotifyKeycode \/ KeyDown \/ KeyUp
    \/ NotifyReturn

\* handlers run one after another
Spec == Init /\ [][Next]_vars

\* handlers of the two contexts interleave statement by statement
SpecConc == InitConc /\ [][Next]_vars

\* one handler of each context, interleaved, on hardware that works
SpecRace == InitRace /\ [][Next]_vars

(***************************************************************************)
(* Properties                                                              *)
(***************************************************************************)
InRange(l) == min_blevel <= l /\ l <= max_blevel
Last(q) == q[Len(q)]

\* the handler of context c is at the return of lcd_set_blevel
SetReturned(c) == pc[c] = "s_ret"
\* the handler of context c is at the return of lcd_get_blevel
GetReturned(c) == pc[c] = "g_ret"

\* C1: after this_laptop_init has stored its first value, whatever handlers
\* of the two contexts interleave and whatever the ports and _BCM answer,
\* min_blevel <= current_blevel <= max_blevel.
C1_LevelInRange ==
    pc["mod"] # "start" => InRange(current_blevel)

\* a byte outside the range has been read while a set of the other context
\* is between its store and the return of _BCM
C1_Witness ==
    /\ pc["user"] = "s_wait"
    /\ pc["acpi"] = "g_check"
    /\ fr["acpi"].data > max_blevel
    /\ current_blevel = fr["user"].level

\* C2: lcd_set_blevel with a level below min_blevel or above max_blevel
\* returns -EINVAL and current_blevel is what it was when the call was made.
C2_OutOfRangeRejected ==
    \A c \in Surfaces :
        SetReturned(c) /\ ~InRange(fr[c].level) =>
            /\ fr[c].ret = -EINVAL
            /\ current_blevel = pre
            /\ fw = <<>>

C2_Witness ==
    /\ SetReturned("user")
    /\ fr["user"].level > max_blevel
    /\ fr["user"].ret = -EINVAL
    /\ current_blevel # max_blevel

\* the read that follows a write of an in-range level through the backlight
\* device or the attribute, at the return of its lcd_get_blevel
ReadAfterWrite ==
    /\ GetReturned("user")
    /\ fr["user"].op = "read"
    /\ prev.op \in {"bl_set", "pf_store"}
    /\ InRange(prev.level)

\* a write of an in-range level, at the return of its lcd_set_blevel
WriteReturned ==
    /\ SetReturned("user")
    /\ InRange(fr["user"].level)

\* the read of the data port succeeded and delivered a level
ReadLevel == io # <<>> /\ Last(io).kind = "read" /\ Last(io).status >= 0
             /\ InRange(Last(io).value)

\* C3 as stated: set(L) with L in range succeeds, and the get() made next
\* returns L.
C3_SetThenGetReturnsL ==
    /\ WriteReturned => fr["user"].ret = 0
    /\ ReadAfterWrite => fr["user"].level = prev.level

\* C3 amended: set(L) with L in range stores L and calls _BCM once; it returns
\* 0 when _BCM succeeds and 1 when it fails.  The get() made next returns the
\* level its lcd_get_blevel read from the data port, and L when that read
\* failed or delivered no level; so it returns L when the set succeeded and
\* the panel was not changed meanwhile.
C3_SetThenGet ==
    /\ WriteReturned =>
          /\ current_blevel = fr["user"].level
          /\ Len(fw) = 1
          /\ fw[1].level = fr["user"].level
          /\ fr["user"].ret = (IF fw[1].status = AE_OK THEN 0 ELSE 1)
    /\ ReadAfterWrite =>
          /\ fr["user"].level = (IF ReadLevel THEN Last(io).value ELSE prev.level)
          /\ (prev.ret = 0 /\ ~oob => fr["user"].level = prev.level)

\* a set that succeeded, then a get that read the level back from the port
C3_Witness ==
    /\ ReadAfterWrite
    /\ prev.ret = 0
    /\ ~oob
    /\ ReadLevel
    /\ fr["user"].level = prev.level
    /\ prev.level # max_blevel

\* C4: when _BCM fails for a level in range, lcd_set_blevel returns 1, which
\* is neither 0 nor -EINVAL, and current_blevel is the level.
C4_HardwareFailureKeepsLevel ==
    \A c \in Surfaces :
        SetReturned(c) /\ InRange(fr[c].level) /\ fw # <<>>
                       /\ Last(fw).status # AE_OK =>
            /\ fr[c].ret = 1
            /\ fr[c].ret \notin {0, -EINVAL}
            /\ current_blevel = fr[c].level

\* _BCM failed on a level other than the one cached before
C4_Witness ==
    /\ SetReturned("user")
    /\ fw # <<>>
    /\ Last(fw).status = AE_ERROR
    /\ current_blevel = fr["user"].level
    /\ pre # fr["user"].level

ReadFailed ==
    /\ io # <<>>
    /\ \/ Last(io).status < 0
       \/ Last(io).kind = "read" /\ ~InRange(Last(io).value)

\* C6: when the write of the address port fails, the read of the data port
\* fails, or the byte read is outside min_blevel..max_blevel, lcd_get_blevel
\* returns an error, current_blevel is what it was before the call, and the
\* caller is given that cached level.
C6_ReconcileFailureKeepsCache ==
    \A c \in Ctx :
        GetReturned(c) /\ ReadFailed =>
            /\ fr[c].ret # AE_OK
            /\ current_blevel = pre
            /\ fr[c].level = pre

\* a byte that is no level has been read
C6_Witness ==
    /\ GetReturned("acpi")
    /\ Len(io) = 2
    /\ Last(io).status = AE_OK
    /\ Last(io).value > max_blevel
    /\ fr["acpi"].ret = AE_ERROR
    /\ current_blevel = pre

\* the key pair of a brightness event
KeyPair(event) ==
    LET key == IF event = ACPI_VIDEO_NOTIFY_INC_BRIGHTNESS
               THEN KEY_BRIGHTNESSUP ELSE KEY_BRIGHTNESSDOWN
    IN  <<[code |-> key, value |-> 1], [code |-> key, value |-> 0]>>

\* acpi_driver_notify has done everything but return
NotifyDone == pc["acpi"] = "n_ret"

\* the level at which the handler's own lcd_get_blevel left the cache
Reconciled == IF ReadLevel THEN Last(io).value ELSE entry

\* C7 as stated: an increment event that finds current_blevel at max_blevel
\* leaves it at max_blevel, a decrement event that finds it at min_blevel
\* leaves it at min_blevel, and the key pair is put out once.
C7_SaturatesFromCached ==
    NotifyDone =>
        /\ fr["acpi"].arg = ACPI_VIDEO_NOTIFY_INC_BRIGHTNESS /\ entry = max_blevel =>
              current_blevel = max_blevel /\ emitted = KeyPair(fr["acpi"].arg)
        /\ fr["acpi"].arg = ACPI_VIDEO_NOTIFY_DEC_BRIGHTNESS /\ entry = min_blevel =>
              current_blevel = min_blevel /\ emitted = KeyPair(fr["acpi"].arg)

\* C7 amended: the handler first takes the level from the hardware.  An
\* increment event whose level after that is max_blevel leaves current_blevel
\* at max_blevel, a decrement event whose level after that is min_blevel
\* leaves it at min_blevel; lcd_set_blevel returns -EINVAL without calling
\* _BCM, the handler drops that value, and the key pair is put out once.
C7_SaturatesFromReconciled ==
    LET event == fr["acpi"].arg
        atBorder == \/ event = ACPI_VIDEO_NOTIFY_INC_BRIGHTNESS /\ Reconciled = max_blevel
                    \/ event = ACPI_VIDEO_NOTIFY_DEC_BRIGHTNESS /\ Reconciled = min_blevel
    IN  /\ SetReturned("acpi") /\ atBorder =>
              /\ fr["acpi"].ret = -EINVAL
              /\ current_blevel = Reconciled
              /\ fw = <<>>
              /\ emitted = <<>>
        /\ NotifyDone /\ atBorder =>
              /\ current_blevel = Reconciled
              /\ fw = <<>>
              /\ emitted = KeyPair(event)

\* an increment at max_blevel, the level having been read from the hardware
C7_Witness ==
    /\ NotifyDone
    /\ fr["acpi"].arg = ACPI_VIDEO_NOTIFY_INC_BRIGHTNESS
    /\ ReadLevel
    /\ Reconciled = max_blevel
    /\ entry # max_blevel
    /\ current_blevel = max_blevel
    /\ Len(emitted) = 2

\* C8: for an increment or a decrement event the handler puts out the key
\* down and then the key up of KEY_BRIGHTNESSUP or KEY_BRIGHTNESSDOWN, once,
\* after lcd_set_blevel has returned and whatever it returned; a key down
\* without its key up is there only until the next step of the handler.
C8_KeyPairAfterSet ==
    /\ pc["acpi"] \in {"g_load", "g_write", "g_read", "g_check", "g_ret",
                       "s_check", "s_wait", "s_ret", "key_down"} =>
          emitted = <<>>
    /\ pc["acpi"] = "key_up" => emitted = <<KeyPair(fr["acpi"].arg)[1]>>
    /\ Len(emitted) = 1 => pc["acpi"] = "key_up"
    /\ NotifyDone /\ fr["acpi"].arg \in {ACPI_VIDEO_NOTIFY_INC_BRIGHTNESS,
                                         ACPI_VIDEO_NOTIFY_DEC_BRIGHTNESS} =>
          emitted = KeyPair(fr["acpi"].arg)

\* the pair of a decrement event whose _BCM call failed
C8_Witness ==
    /\ NotifyDone
    /\ fr["acpi"].arg = ACPI_VIDEO_NOTIFY_DEC_BRIGHTNESS
    /\ fw # <<>>
    /\ Last(fw).status = AE_ERROR
    /\ emitted = KeyPair(ACPI_VIDEO_NOTIFY_DEC_BRIGHTNESS)

\* the event of the handler is neither of the two brightness events
OtherEvent ==
    fr["acpi"].arg \notin {ACPI_VIDEO_NOTIFY_INC_BRIGHTNESS,
                           ACPI_VIDEO_NOTIFY_DEC_BRIGHTNESS}

\* C9 as stated: an event that is neither brightness event changes nothing,
\* whatever the hardware register holds, and puts out no key event.
C9_OtherEventChangesNothing ==
    NotifyDone /\ OtherEvent =>
        /\ current_blevel = entry
        /\ emitted = <<>>

\* C9 amended: an event that is neither brightness event makes no call of
\* lcd_set_blevel and puts out no key event, but the handler's leading
\* lcd_get_blevel still runs: current_blevel becomes the level read from the
\* data port, and stays what it was when that call fails.
C9_OtherEventOnlyReconciles ==
    NotifyDone /\ OtherEvent =>
        /\ emitted = <<>>
        /\ fw = <<>>
        /\ current_blevel = Reconciled
        /\ (ReadFailed => current_blevel = entry)

\* another event has moved the cache to the level read
C9_Witness ==
    /\ NotifyDone
    /\ OtherEvent
    /\ ReadLevel
    /\ current_blevel = Last(io).value
    /\ current_blevel # entry
    /\ emitted = <<>>

\* a step of the module's initialization
InitStep ==
    \/ InitStart \/ InitFallback \/ ProbeStart \/ ProbeReturn
    \/ GLoad("mod") \/ GWrite("mod") \/ GRead("mod") \/ GCheck("mod")

\* C10: this_laptop_init always comes to its end; there current_blevel is
\* max_blevel when its lcd_get_blevel failed and the level read from the
\* data port when it succeeded.
C10_InitFallsBackToMax ==
    /\ pc["mod"] # "loaded" => ENABLED InitStep
    /\ pc["mod"] = "init_ret" =>
          /\ ReadFailed => current_blevel = max_blevel
          /\ ReadLevel => current_blevel = Last(io).value
          /\ ReadFailed \/ ReadLevel

\* the initialization ended on a failed read of the data port
C10_Witness ==
    /\ pc["mod"] = "init_ret"
    /\ Len(io) = 2
    /\ Last(io).status < 0
    /\ current_blevel = max_blevel

\* a read through the backlight device or the attribute, at the return of
\* its lcd_get_blevel
SurfaceRead == GetReturned("user") /\ fr["user"].op = "read"

\* C11 as stated: a read through the backlight device or the attribute
\* leaves current_blevel as it was and makes no port operation.
C11_ReadHasNoSideEffect ==
    SurfaceRead => current_blevel = entry /\ io = <<>>

\* C11 amended: a read through the backlight device or the attribute runs
\* lcd_get_blevel: it writes the address port and, when that succeeds, reads
\* the data port, and it calls no firmware method and reports no key.
\* current_blevel becomes the level read from the data port and stays what
\* it was when no level is read; the read returns current_blevel as it is
\* after that.
C11_ReadReconciles ==
    SurfaceRead =>
        /\ Len(io) \in {1, 2}
        /\ io[1].kind = "write"
        /\ fw = <<>>
        /\ emitted = <<>>
        /\ current_blevel = (IF ReadLevel THEN Last(io).value ELSE entry)
        /\ fr["user"].level = current_blevel

\* a read that moved the cache to the level of the hardware
C11_Witness ==
    /\ SurfaceRead
    /\ ReadLevel
    /\ current_blevel = Last(io).value
    /\ current_blevel # entry
    /\ prev.op = "notify"

\* what the read at the return of its lcd_get_blevel gives through the
\* backlight device, and the text it gives through the attribute
BlGetResult == fr["user"].level
PfShowText == Sprintf(fr["user"].level)

\* C12 as stated: after a write of an in-range level L through the backlight
\* device or the attribute, the next read through either of them returns L.
C12_WriteVisibleToRead ==
    ReadAfterWrite =>
        /\ BlGetResult = prev.level
        /\ PfShowText = Sprintf(prev.level)

\* C12 amended: a write of an in-range level L through either surface stores
\* L in the one current_blevel; the next read through either surface returns
\* the level its lcd_get_blevel read from the data port, and L when no level
\* was read, the same level as a number through the backlight device and as
\* text through the attribute.  It is L when _BCM succeeded and the panel was
\* not changed meanwhile.
C12_SurfacesShareState ==
    /\ WriteReturned => current_blevel = fr["user"].level
    /\ ReadAfterWrite =>
          LET v == IF ReadLevel THEN Last(io).value ELSE prev.level
          IN  /\ current_blevel = v
              /\ BlGetResult = v
              /\ Sscanf(PfShowText) = {[status |-> 1, assigned |-> TRUE, value |-> v]}
              /\ (prev.ret = 0 /\ ~oob => v = prev.level)
    /\ prev.op = "bl_get" => prev.out = prev.level
    /\ prev.op = "pf_show" => prev.out = Len(Sprintf(prev.level))

\* "3\n" written through the attribute, then read back
C12_Witness ==
    /\ ReadAfterWrite
    /\ prev.op = "pf_store"
    /\ prev.arg = 2
    /\ prev.level = 3
    /\ prev.ret = 0
    /\ ~oob
    /\ BlGetResult = 3
    /\ PfShowText = <<"3", "\n">>

\* pf_store_lcd_level is in its call of lcd_set_blevel and sscanf converted
\* nothing
StoreUnparsed ==
    /\ fr["user"].op = "pf_store"
    /\ pc["user"] \in {"s_check", "s_wait", "s_ret"}
    /\ scan < 1

\* C13: a write to the attribute whose text is no integer, empty or not
\* numeric, calls lcd_set_blevel with current_blevel, so that current_blevel
\* is unchanged and no arbitrary level is passed.
C13_ParseFailureReusesLevel ==
    StoreUnparsed =>
        /\ fr["user"].level = entry
        /\ SetReturned("user") => current_blevel = entry

\* C14: pf_store_lcd_level returns an error when lcd_set_blevel failed, with
\* -EINVAL or because _BCM failed, and returns count only when it succeeded.
C14_StoreReturnsSetError ==
    prev.op = "pf_store" =>
        /\ prev.ret # 0 => prev.out < 0
        /\ prev.out = prev.arg => prev.ret = 0

\* context c has a hardware operation in flight: _BCM has been called and
\* has not returned, or the address port has been written and the data port
\* has not been read yet
InFlight(c) == pc[c] \in {"s_wait", "g_read"}

\* C15: whatever the interleaving of reads, writes and notify handlers of
\* different contexts, no two hardware operations are in flight at once.
C15_HardwareSerialized ==
    ~(InFlight("user") /\ InFlight("acpi"))

\* the level after a brightness event handled alone at level l
Stepped(event, l) ==
    LET t == IF event = ACPI_VIDEO_NOTIFY_INC_BRIGHTNESS THEN l + 1 ELSE l - 1
    IN  IF InRange(t) THEN t ELSE l

\* C16: with hardware that works, when a notify handler for a brightness
\* event and a set of L through the backlight device have both run, whatever
\* their interleaving, current_blevel is what one of the two serial orders
\* gives: L (the event first) or L stepped by the event (the set first).
C16_HotkeySetSerializable ==
    /\ SetReturned("user") /\ fr["user"].op = "bl_set"
    /\ NotifyDone /\ ~OtherEvent
    => current_blevel \in {fr["user"].level,
                           Stepped(fr["acpi"].arg, fr["user"].level)}

\* the driver is loaded and no handler runs
Quiet == pc["mod"] = "loaded" /\ \A c \in Surfaces : pc[c] = "idle"

\* current_blevel after each stage of the scenario
ScenarioLevels == <<max_blevel, max_blevel, 2, 1, 2>>

\* the set of the scenario's stage n has returned from lcd_set_blevel
ScenarioSet(n, level) ==
    stage = n /\ SetReturned("user") /\ fr["user"].level = level

\* the notify handler of the scenario's stage n is done
ScenarioEvent(n, event) ==
    stage = n /\ NotifyDone /\ fr["acpi"].arg = event

StepTarget ==
    Reconciled + (IF fr["acpi"].arg = ACPI_VIDEO_NOTIFY_INC_BRIGHTNESS
                  THEN 1 ELSE 0 - 1)

\* C18: a notify handler for an increment (decrement) event that runs alone
\* calls lcd_set_blevel with V + 1 (V - 1) when its lcd_get_blevel read the
\* level V, and with C + 1 (C - 1), C the cached level, when that call
\* failed; when this target is in range, current_blevel is the target when
\* the handler is done.
C18_TargetFromReconciled ==
    /\ pc["acpi"] \in {"s_check", "s_wait", "s_ret", "key_down", "key_up"} =>
          fr["acpi"].level = StepTarget
    /\ NotifyDone /\ ~OtherEvent =>
          /\ fr["acpi"].level = StepTarget
          /\ InRange(StepTarget) =>
                /\ current_blevel = StepTarget
                /\ Len(fw) = 1
                /\ fw[1].level = StepTarget

\* a decrement from the cached level, the port having failed
C18_Witness ==
    /\ NotifyDone
    /\ fr["acpi"].arg = ACPI_VIDEO_NOTIFY_DEC_BRIGHTNESS
    /\ ReadFailed
    /\ entry > min_blevel
    /\ current_blevel = entry - 1

\* the write of the register address to the address port
IsSelect(r) ==
    r.kind = "write" /\ r.port = IO_PORT_ADDRESS_SET
                     /\ r.value = BRTS_REGISTER_ADDRESS
\* a read of the data port
IsDataRead(r) == r.kind = "read" /\ r.port = IO_PORT_DATA_RW

\* C19: lcd_get_blevel writes 0xF3 to port 0x72 before it reads port 0x73;
\* it reads at most once, and not at all when the write failed; no port
\* operation is made a second time.
C19_PortOrder ==
    /\ Len(io) <= 2
    /\ \A c \in Ctx :
         /\ pc[c] = "g_write" => io = <<>>
         /\ pc[c] = "g_read" =>
               Len(io) = 1 /\ IsSelect(io[1]) /\ io[1].status >= 0
         /\ pc[c] = "g_check" =>
               /\ Len(io) = 2 /\ IsSelect(io[1]) /\ io[1].status >= 0
               /\ IsDataRead(io[2]) /\ io[2].status >= 0
         /\ GetReturned(c) =>
               \/ Len(io) = 1 /\ IsSelect(io[1]) /\ io[1].status < 0
               \/ /\ Len(io) = 2 /\ IsSelect(io[1]) /\ io[1].status >= 0
                  /\ IsDataRead(io[2])

\* the write failed and nothing was read
C19_Witness ==
    /\ GetReturned("user")
    /\ Len(io) = 1
    /\ IsSelect(io[1])
    /\ io[1].status < 0
    /\ fr["user"].ret = AE_ERROR

\* C20: lcd_set_blevel with a level in range calls _BCM once, with that
\* level and after it stored it in current_blevel; with a level out of range
\* it does not call _BCM; so every level given to _BCM is in range.
C20_FirmwareCallOnce ==
    /\ Len(fw) <= 1
    /\ \A i \in 1 .. Len(fw) : InRange(fw[i].level)
    /\ \A c \in Surfaces :
         /\ pc[c] = "s_check" => fw = <<>>
         /\ pc[c] = "s_wait" =>
               /\ InRange(fr[c].level)
               /\ current_blevel = fr[c].level
               /\ fw = <<>>
         /\ SetReturned(c) =>
               IF InRange(fr[c].level)
               THEN /\ Len(fw) = 1
                    /\ fw[1].level = fr[c].level
                    /\ current_blevel = fr[c].level
               ELSE fw = <<>>

\* the notify handler's set has called _BCM with a new level
C20_Witness ==
    /\ SetReturned("acpi")
    /\ Len(fw) = 1
    /\ fw[1].level = fr["acpi"].level
    /\ fw[1].status = AE_OK
    /\ pre # fr["acpi"].level
    /\ hw = fr["acpi"].level

\* C21: with hardware that works and is not changed from outside, whatever
\* the interleaving of the handlers, when the driver is loaded and no handler
\* runs current_blevel is the level the register holds, the one _BCM was
\* given last.
C21_CacheMatchesHardware ==
    Quiet => current_blevel = hw

\* C22: a read through the backlight device or the attribute, run alone,
\* gives a level of min_blevel..max_blevel that is current_blevel when the
\* read ends: the level read from the data port when lcd_get_blevel
\* succeeded, the cached level when it failed; the read reports no error.
C22_ReadReturnsLevelInRange ==
    /\ SurfaceRead =>
          /\ InRange(BlGetResult)
          /\ BlGetResult = current_blevel
          /\ ReadLevel => BlGetResult = Last(io).value
          /\ ReadFailed => BlGetResult = entry
          /\ \E v \in min_blevel .. max_blevel :
                Sscanf(PfShowText) = {[status |-> 1, assigned |-> TRUE, value |-> v]}
    /\ prev.op = "bl_get" =>
          /\ InRange(prev.out) /\ prev.out = prev.level
          /\ Quiet => current_blevel = prev.out
    /\ prev.op = "pf_show" =>
          InRange(prev.level) /\ prev.out = Len(Sprintf(prev.level)) /\ prev.out > 0

\* the data port delivered a byte that is no level and the read gives the
\* cached level
C22_Witness ==
    /\ SurfaceRead
    /\ Len(io) = 2
    /\ Last(io).status >= 0
    /\ Last(io).value > max_blevel
    /\ fr["user"].ret = AE_ERROR
    /\ BlGetResult = entry
    /\ entry < max_blevel

====
